---- MODULE Spec2Model ----
(***************************************************************************)
(* Model of budgetmapper/models.py: the chunked blob store (Blob.write,    *)
(* BlobChunk, BlobReader) and the budget value resolver                    *)
(* (ClassificationSystem.roots/leaves, Budget.get_value_of,                *)
(* BudgetItemBase.value and its variants).                                 *)
(***************************************************************************)
EXTENDS Integers, Sequences, FiniteSets, TLC

(* ------------------------------ bounds --------------------------------- *)
\* bytes held by the BlobChunk table
MaxBytes == 3
\* largest chunk_size handed to Blob.write (the default 65536 is out of reach)
MaxChunk == 2
\* rows of the Blob table
MaxBlobs == 2
\* largest non-negative size handed to BlobReader.read
MaxRead == 2
\* rows of the Classification, Budget and BudgetItemBase tables together
MaxRows == 4
\* largest amount of an AtomicBudgetItem
MaxAmount == 2
\* most classifications one MappedBudgetItem maps to
MaxMapped == 2

VARIABLES
    blobs,      \* Blob table: set of primary keys
    chunks,     \* BlobChunk table: set of rows [blob, index, body]
    wlog,       \* history: blob -> [data, chunk_size, lens] of its write call
    reader,     \* the BlobReader under observation, or NoReader
    rlog        \* history of the reader's calls

blobVars == <<blobs, chunks, wlog, reader, rlog>>

VARIABLES
    classes,    \* Classification table: pk i -> [system, parent], parent 0 is None
    budgets,    \* Budget table: pk -> classification_system
    items,      \* BudgetItemBase table (polymorphic rows)
    ret         \* the last query made and what it produced

budgetVars == <<classes, budgets, items, ret>>

vars == <<blobs, chunks, wlog, reader, rlog, classes, budgets, items, ret>>

(* ------------------------------ helpers -------------------------------- *)
Min(a, b) == IF a < b THEN a ELSE b

RECURSIVE SumSeq(_)
SumSeq(s) == IF s = <<>> THEN 0 ELSE Head(s) + SumSeq(Tail(s))

\* ceil(n / k) for k >= 1
CeilDiv(n, k) == (n + k - 1) \div k

\* s[:n] and s[n:] of Python, for n >= 0
Take(s, n) == SubSeq(s, 1, Min(n, Len(s)))
Drop(s, n) == SubSeq(s, Min(n, Len(s)) + 1, Len(s))

IsPrefix(p, s) == Len(p) <= Len(s) /\ SubSeq(s, 1, Len(p)) = p

(* --------------------------- the input stream -------------------------- *)
\* The code never inspects a byte, so a stream of pairwise distinct bytes,
\* distinct from the bytes of every other blob, is the most general input:
\* any loss, duplication, reordering or mix-up between blobs shows.
Stream(id, n) == [i \in 1..n |-> 10 * id + i]

\* The lengths a RawIOBase may return for the successive data.read(k) calls
\* over a stream of n bytes: each read returns between 1 and k bytes while
\* bytes remain (a raw stream may return fewer than asked), then 0.
ReadLens(n, k) ==
    { s \in UNION { [1..m -> 1..k] : m \in 0..n } : SumSeq(s) = n }

\* The reads of a stream that always returns as much as is asked for.
RECURSIVE FullReads(_, _)
FullReads(n, k) == IF n = 0 THEN <<>>
                   ELSE <<Min(n, k)>> \o FullReads(n - Min(n, k), k)

(* ------------------------------ Blob.write ----------------------------- *)
\* mutant: the loop saves the chunk before testing for the empty read
RECURSIVE WriteLoop_KeepsEmpty(_, _, _, _)
WriteLoop_KeepsEmpty(id, data, lens, idx) ==
    IF lens = <<>> THEN {[blob |-> id, index |-> idx, body |-> <<>>]}
    ELSE {[blob |-> id, index |-> idx, body |-> Take(data, Head(lens))]}
         \cup WriteLoop_KeepsEmpty(id, Drop(data, Head(lens)), Tail(lens), idx + 1)

\* The loop of Blob.write: one BlobChunk per non-empty read, idx from 0.
RECURSIVE WriteLoop(_, _, _, _)
WriteLoop(id, data, lens, idx) ==
    IF lens = <<>> THEN {}
    ELSE {[blob |-> id, index |-> idx, body |-> Take(data, Head(lens))]}
         \cup WriteLoop(id, Drop(data, Head(lens)), Tail(lens), idx + 1)

\* bytes already stored
RECURSIVE StoredBytes(_)
StoredBytes(S) == IF S = {} THEN 0
                  ELSE LET c == CHOOSE x \in S : TRUE
                       IN Len(c.body) + StoredBytes(S \ {c})

Write(n, k, lens) ==
    /\ Cardinality(blobs) < MaxBlobs
    /\ StoredBytes(chunks) + n <= MaxBytes
    /\ LET id == Cardinality(blobs) + 1
           data == Stream(id, n)
       IN /\ blobs' = blobs \cup {id}
          /\ chunks' = chunks \cup WriteLoop(id, data, lens, 0)
          /\ wlog' = [b \in blobs \cup {id} |->
                        IF b = id THEN [data |-> data, chunk_size |-> k, lens |-> lens]
                        ELSE wlog[b]]
    /\ UNCHANGED <<reader, rlog>>
    /\ UNCHANGED budgetVars

(* ------------------------------ BlobReader ----------------------------- *)
NoReader == [blob |-> 0]

\* mutant: the queryset is not filtered by blob
ChunksOf_AnyBlob(b) == chunks

\* BlobChunk.objects.filter(blob=blob).order_by("index")
ChunksOf(b) == { c \in chunks : c.blob = b }

RECURSIVE OrderByIndex(_)
OrderByIndex(S) ==
    IF S = {} THEN <<>>
    ELSE LET c == CHOOSE x \in S : \A y \in S : x.index <= y.index
         IN <<c>> \o OrderByIndex(S \ {c})

Fp(b) == OrderByIndex(ChunksOf(b))

\* BlobReader.__init__
NewReaderState(b) == [blob |-> b, buffer |-> <<>>, pos |-> 0, done |-> FALSE]

\* the while loop of read: pull chunks from the generator into the buffer
RECURSIVE Fill(_, _)
\* mutant: an if in place of the while, at most one chunk is pulled
Fill_OneChunk(r, size) ==
    IF size = -1 \/ Len(r.buffer) < size
    THEN IF r.pos < Len(Fp(r.blob))
         THEN [r EXCEPT !.buffer = @ \o Fp(r.blob)[r.pos + 1].body, !.pos = @ + 1]
         ELSE [r EXCEPT !.done = TRUE]
    ELSE r

Fill(r, size) ==
    IF size = -1 \/ Len(r.buffer) < size
    THEN IF r.pos < Len(Fp(r.blob))
         THEN Fill([r EXCEPT !.buffer = @ \o Fp(r.blob)[r.pos + 1].body,
                             !.pos = @ + 1], size)
         ELSE [r EXCEPT !.done = TRUE]
    ELSE r

\* mutant: the bytes pulled beyond size are not kept for the next call
ReadOp_DropsExcess(r, size) ==
    LET f == Fill(r, size)
    IN [retval |-> IF size >= 0 THEN Take(f.buffer, size) ELSE f.buffer,
        reader |-> [f EXCEPT !.buffer = <<>>]]

\* BlobReader.read: the returned bytes and the reader afterwards
ReadOp(r, size) ==
    LET f == Fill(r, size)
    IN IF size >= 0
       THEN [retval |-> Take(f.buffer, size),
             reader |-> [f EXCEPT !.buffer = Drop(f.buffer, size)]]
       ELSE [retval |-> f.buffer,
             reader |-> [f EXCEPT !.buffer = <<>>]]

ReadSizes == {-2, -1} \cup (0..MaxRead)

NoLog == [active |-> FALSE]

NewReader(b) ==
    /\ b \in blobs
    /\ reader' = NewReaderState(b)
    /\ rlog' = NoLog
    /\ UNCHANGED <<blobs, chunks, wlog>>
    /\ UNCHANGED budgetVars

Read(size) ==
    /\ reader # NoReader
    /\ LET res == ReadOp(reader, size)
           prev == IF rlog = NoLog THEN <<>> ELSE rlog.returned
       IN /\ reader' = res.reader
          /\ rlog' = [active |-> TRUE,
                      size |-> size,
                      retval |-> res.retval,
                      before |-> prev,
                      returned |-> prev \o res.retval,
                      onlyPos |-> (size > 0) /\ (rlog = NoLog \/ rlog.onlyPos),
                      fresh |-> (rlog = NoLog)]
    /\ UNCHANGED <<blobs, chunks, wlog>>
    /\ UNCHANGED budgetVars

InitBlob ==
    /\ blobs = {}
    /\ chunks = {}
    /\ wlog = << >>
    /\ reader = NoReader
    /\ rlog = NoLog


(* ------------------------- classification tree ------------------------- *)
NoRet == [op |-> "none"]

Systems == {"s1", "s2"}
Budgets == {"X", "Y"}
None == 0

ClassIds == 1..Len(classes)

\* Classification(classification_system=s, parent=p).save(); the parent is
\* an existing row or None, and nothing makes it share the system
\* rows in the three tables
Rows == Len(classes) + Cardinality(DOMAIN budgets) + Cardinality(items)

CreateClassification(s, p) ==
    /\ Rows < MaxRows
    /\ p \in {None} \cup ClassIds
    /\ classes' = Append(classes, [system |-> s, parent |-> p])
    /\ ret' = NoRet
    /\ UNCHANGED <<budgets, items>>
    /\ UNCHANGED blobVars

\* ClassificationSystem.roots
roots(s) == { c \in ClassIds : classes[c].parent = None }

\* mutant: the subquery is not restricted to the system
leaves_AnyChild(s) ==
    { c \in ClassIds :
        /\ ~ \E d \in ClassIds : classes[d].parent = c
        /\ classes[c].system = s }

\* ClassificationSystem.leaves
leaves(s) ==
    { c \in ClassIds :
        /\ ~ \E d \in ClassIds : classes[d].system = s /\ classes[d].parent = c
        /\ classes[c].system = s }

Roots(s) ==
    /\ ret' = [op |-> "roots", system |-> s, out |-> roots(s)]
    /\ UNCHANGED <<classes, budgets, items>>
    /\ UNCHANGED blobVars

Leaves(s) ==
    /\ ret' = [op |-> "leaves", system |-> s, out |-> leaves(s)]
    /\ UNCHANGED <<classes, budgets, items>>
    /\ UNCHANGED blobVars

(* ------------------------------- budgets ------------------------------- *)
CreateBudget(b, s) ==
    /\ Rows < MaxRows
    /\ b \notin DOMAIN budgets
    /\ budgets' = [x \in DOMAIN budgets \cup {b} |-> IF x = b THEN s ELSE budgets[x]]
    /\ ret' = NoRet
    /\ UNCHANGED <<classes, items>>
    /\ UNCHANGED blobVars

\* unique_together = ("budget", "classification")
ItemsAt(b, c) == { i \in items : i.budget = b /\ i.classification = c }

\* AtomicBudgetItem(budget=b, classification=c, amount=a).save()
CreateAtomic(b, c, a) ==
    /\ Rows < MaxRows
    /\ b \in DOMAIN budgets /\ c \in ClassIds
    /\ ItemsAt(b, c) = {}
    /\ items' = items \cup {[budget |-> b, classification |-> c, kind |-> "Atomic",
                            amount |-> a, mapped_budget |-> b,
                            mapped_classifications |-> {}]}
    /\ ret' = NoRet
    /\ UNCHANGED <<classes, budgets>>
    /\ UNCHANGED blobVars

\* MappedBudgetItem(budget=b, classification=c, mapped_budget=mb).save() and
\* mapped_classifications.set(S); nothing ties S to mb's system
CreateMapped(b, c, mb, S) ==
    /\ Rows < MaxRows
    /\ b \in DOMAIN budgets /\ c \in ClassIds
    /\ mb \in DOMAIN budgets /\ S \subseteq ClassIds
    /\ Cardinality(S) <= MaxMapped
    /\ ItemsAt(b, c) = {}
    /\ items' = items \cup {[budget |-> b, classification |-> c, kind |-> "Mapped",
                            amount |-> 0, mapped_budget |-> mb,
                            mapped_classifications |-> S]}
    /\ ret' = NoRet
    /\ UNCHANGED <<classes, budgets>>
    /\ UNCHANGED blobVars

(* ----------------------------- the resolver ---------------------------- *)
\* What a call produces: a value, or an exception. Django leaves the order of
\* an unordered queryset open, so when several terms of a sum raise, errs
\* holds every exception that can be the first one raised.
Ok(v) == [ok |-> TRUE, val |-> v, errs |-> {}]
Raise(e) == [ok |-> FALSE, val |-> 0, errs |-> {e}]

\* the exception of line 145
MismatchedClassificationSystem == "ValueError"

RECURSIVE SumVals(_, _)
SumVals(S, f) == IF S = {} THEN 0
                 ELSE LET x == CHOOSE x \in S : TRUE
                      IN f[x].val + SumVals(S \ {x}, f)

\* sum(<generator over S>): the total, or the first exception raised
PySum(S, f) ==
    IF \A x \in S : f[x].ok THEN Ok(SumVals(S, f))
    ELSE [ok |-> FALSE, val |-> 0, errs |-> UNION { f[x].errs : x \in S }]

\* BudgetItemBase.objects.get(budget=b, classification=c): the one matching
\* row; with no matching row it raises DoesNotExist, it never returns None
NoItem == [kind |-> "None"]

ObjectsGet(b, c) ==
    IF ItemsAt(b, c) = {} THEN [raised |-> TRUE, row |-> NoItem]
    ELSE [raised |-> FALSE, row |-> CHOOSE i \in ItemsAt(b, c) : TRUE]

\* Classification.objects.filter(parent=classification)
Children(c) == { d \in ClassIds : classes[d].parent = c }

\* A chain of calls longer than the rows it can pass through without
\* repeating one is a cycle; Python ends it with RecursionError.
StackLimit == Cardinality(items) + Len(classes) + 1

RECURSIVE get_value_of(_, _, _), value(_, _)
\* mutant: the item is looked up before the systems are compared
get_value_of_LookupFirst(b, c, depth) ==
    IF depth = 0 THEN Raise("RecursionError")
    ELSE LET val == ObjectsGet(b, c)
         IN IF val.raised THEN Raise("DoesNotExist")
            ELSE IF budgets[b] # classes[c].system THEN Raise(MismatchedClassificationSystem)
            ELSE value(val.row, depth)

\* Budget.get_value_of
get_value_of(b, c, depth) ==
    IF depth = 0 THEN Raise("RecursionError")
    ELSE IF budgets[b] # classes[c].system THEN Raise(MismatchedClassificationSystem)
    ELSE LET val == ObjectsGet(b, c)
         IN IF val.raised THEN Raise("DoesNotExist")
            ELSE IF val.row # NoItem THEN value(val.row, depth)
            ELSE PySum(Children(c), [d \in Children(c) |-> get_value_of(b, d, depth - 1)])

\* AtomicBudgetItem.value and MappedBudgetItem.value
value(item, depth) ==
    IF item.kind = "Atomic" THEN Ok(item.amount)
    ELSE PySum(item.mapped_classifications,
               [c \in item.mapped_classifications |->
                    get_value_of(item.mapped_budget, c, depth - 1)])

GetValueOf(b, c) ==
    /\ b \in DOMAIN budgets /\ c \in ClassIds
    /\ ret' = [op |-> "get_value_of", budget |-> b, classification |-> c,
               out |-> get_value_of(b, c, StackLimit)]
    /\ UNCHANGED <<classes, budgets, items>>
    /\ UNCHANGED blobVars

ItemValue(i) ==
    /\ i \in items
    /\ ret' = [op |-> "value", budget |-> i.budget, classification |-> i.classification,
               out |-> value(i, StackLimit)]
    /\ UNCHANGED <<classes, budgets, items>>
    /\ UNCHANGED blobVars

InitBudget ==
    /\ classes = <<>>
    /\ budgets = << >>
    /\ items = {}
    /\ ret = NoRet

Init == InitBlob /\ InitBudget

NextTree ==
    \/ \E s \in Systems, p \in {None} \cup ClassIds : CreateClassification(s, p)
    \/ \E s \in Systems : Roots(s)
    \/ \E s \in Systems : Leaves(s)

NextBudget ==
    \/ \E s \in Systems, p \in {None} \cup ClassIds : CreateClassification(s, p)
    \/ \E b \in Budgets, s \in Systems : CreateBudget(b, s)
    \/ \E b \in DOMAIN budgets, c \in ClassIds, a \in 1..MaxAmount : CreateAtomic(b, c, a)
    \/ \E b \in DOMAIN budgets, c \in ClassIds, mb \in DOMAIN budgets :
          \E S \in SUBSET ClassIds : CreateMapped(b, c, mb, S)
    \/ \E b \in DOMAIN budgets, c \in ClassIds : GetValueOf(b, c)
    \/ \E i \in items : ItemValue(i)

SpecTree == Init /\ [][NextTree]_vars
SpecBudget == Init /\ [][NextBudget]_vars

NextBlob ==
    \/ \E n \in 0..MaxBytes, k \in 1..MaxChunk : \E lens \in ReadLens(n, k) : Write(n, k, lens)
    \/ \E b \in 1..MaxBlobs : NewReader(b)
    \/ \E size \in ReadSizes : Read(size)

SpecBlob == Init /\ [][NextBlob]_vars


(* --------------------- classification tree properties ------------------ *)
\* C4 as stated: roots(S) is exactly the set of nodes of S without a parent;
\* no node of another system is included.
C4_AsStated ==
    ret.op = "roots" =>
        ret.out = { c \in ClassIds : classes[c].system = ret.system
                                     /\ classes[c].parent = None }

\* C5: leaves(S) is exactly the set of nodes of S that are the parent of no
\* node of S: a node of S with children in another system only is a leaf of
\* S, and no node of another system is included.
C5_Leaves ==
    ret.op = "leaves" =>
        /\ ret.out \subseteq ClassIds
        /\ \A c \in ClassIds :
             c \in ret.out <=>
                /\ classes[c].system = ret.system
                /\ \A d \in Children(c) : classes[d].system # ret.system

\* leaves of a system holding a node with foreign children only (a leaf), a
\* node with a child of its own system (not a leaf), beside a foreign node
C5_Witness ==
    /\ ret.op = "leaves"
    /\ \E c \in ret.out : Children(c) # {}
    /\ \E c \in ClassIds \ ret.out :
          classes[c].system = ret.system /\ Children(c) # {}
    /\ \E c \in ClassIds \ ret.out : classes[c].system # ret.system

(* -------------------------- resolver properties ------------------------ *)
SystemsMatch(b, c) == budgets[b] = classes[c].system

\* the item the last query was about, for a query on an item
RetItem == CHOOSE i \in ItemsAt(ret.budget, ret.classification) : TRUE

\* C1 as stated: with no item for (B, P), get_value_of(B, P) is the sum of
\* get_value_of(B, c) over the children c of P, and 0 when P has no child.
C1_AsStated ==
    (/\ ret.op = "get_value_of"
     /\ SystemsMatch(ret.budget, ret.classification)
     /\ ItemsAt(ret.budget, ret.classification) = {})
    => ret.out = PySum(Children(ret.classification),
                       [d \in Children(ret.classification) |->
                            get_value_of(ret.budget, d, StackLimit)])

\* C2: get_value_of(B, C) with C outside B's classification system raises
\* the mismatch error and returns no value, with or without an item for
\* (B, C); the value of a MappedBudgetItem with a mapped classification
\* outside mapped_budget's system is no value either, that call raising
\* the mismatch error (alone when it is the only mapped classification).
C2_Mismatch ==
    /\ (ret.op = "get_value_of" /\ ~SystemsMatch(ret.budget, ret.classification))
         => ret.out = Raise(MismatchedClassificationSystem)
    /\ (ret.op = "value" /\ RetItem.kind = "Mapped")
         => LET bad == { c \in RetItem.mapped_classifications :
                            ~SystemsMatch(RetItem.mapped_budget, c) }
            IN bad # {} =>
                 /\ ~ret.out.ok
                 /\ MismatchedClassificationSystem \in ret.out.errs
                 /\ (bad = RetItem.mapped_classifications
                       => ret.out = Raise(MismatchedClassificationSystem))

\* the mismatched call made where an item exists for (B, C)
C2_Witness ==
    /\ ret.op = "get_value_of"
    /\ ~SystemsMatch(ret.budget, ret.classification)
    /\ ItemsAt(ret.budget, ret.classification) # {}

\* the amount of the AtomicBudgetItem of (b, c)
AmountAt(b, c) == (CHOOSE i \in ItemsAt(b, c) : TRUE).amount

HasAtomic(b, c) == \E i \in ItemsAt(b, c) : i.kind = "Atomic"

\* C3 as stated: the value of a MappedBudgetItem is the sum over its mapped
\* classifications c of the value resolved in mapped_budget: the item's value
\* where mapped_budget has an item at c, the sum over c's children where it
\* has none.
C3_AsStated ==
    (/\ ret.op = "value"
     /\ RetItem.kind = "Mapped"
     /\ \A c \in RetItem.mapped_classifications :
           /\ SystemsMatch(RetItem.mapped_budget, c)
           /\ \/ HasAtomic(RetItem.mapped_budget, c)
              \/ /\ ItemsAt(RetItem.mapped_budget, c) = {}
                 /\ \A d \in Children(c) : /\ SystemsMatch(RetItem.mapped_budget, d)
                                           /\ HasAtomic(RetItem.mapped_budget, d))
    => LET Y == RetItem.mapped_budget
           S == RetItem.mapped_classifications
           term == [c \in S |->
                      IF HasAtomic(Y, c) THEN Ok(AmountAt(Y, c))
                      ELSE Ok(SumVals(Children(c),
                                      [d \in Children(c) |-> Ok(AmountAt(Y, d))]))]
       IN ret.out = Ok(SumVals(S, term))

(* ------------------------- blob store properties ----------------------- *)
RECURSIVE ConcatBodies(_)
ConcatBodies(cs) == IF cs = <<>> THEN <<>> ELSE Head(cs).body \o ConcatBodies(Tail(cs))

\* what a single read() with no size returns on a fresh reader over b
FreshReadAll(b) == ReadOp(NewReaderState(b), -1).retval

\* the bytes of the i-th read of the write call of blob b
ReadBytes(b, i) ==
    LET off == SumSeq(SubSeq(wlog[b].lens, 1, i - 1))
    IN SubSeq(wlog[b].data, off + 1, off + wlog[b].lens[i])

\* the size the claim gives to chunk i (1-based) of m chunks of n bytes cut by k
AlignedSize(n, k, m, i) == IF i < m THEN k ELSE IF n % k = 0 THEN k ELSE n % k

\* C6 as stated: every write of N bytes with chunk_size k leaves exactly
\* ceil(N/k) chunks, indexed 0..ceil(N/k)-1 in write order, all of size k
\* except the last (N mod k, or k), none empty, none when N = 0.
C6_AsStated ==
    \A b \in blobs :
        LET n == Len(wlog[b].data)
            k == wlog[b].chunk_size
            m == CeilDiv(n, k)
            cs == Fp(b)
        IN /\ Len(cs) = m
           /\ \A i \in 1..Len(cs) : /\ cs[i].index = i - 1
                                    /\ Len(cs[i].body) = AlignedSize(n, k, m, i)
                                    /\ cs[i].body # <<>>

\* C6 amended: every write leaves one chunk per non-empty read of the stream,
\* indexed 0.. in write order, chunk i holding the bytes of read i (1..k
\* bytes, never empty), hence at least ceil(N/k) chunks and none when N = 0;
\* when every read returns min(k, bytes left) there are exactly ceil(N/k)
\* chunks, all of size k except the last (N mod k, or k).
C6_Chunking ==
    \A b \in blobs :
        LET n == Len(wlog[b].data)
            k == wlog[b].chunk_size
            m == CeilDiv(n, k)
            cs == Fp(b)
        IN /\ Len(cs) = Len(wlog[b].lens)
           /\ Cardinality(ChunksOf(b)) = Len(cs)
           /\ Len(cs) >= m
           /\ (n = 0 => ChunksOf(b) = {})
           /\ \A i \in 1..Len(cs) : /\ cs[i].index = i - 1
                                    /\ cs[i].body = ReadBytes(b, i)
                                    /\ Len(cs[i].body) \in 1..k
           /\ (wlog[b].lens = FullReads(n, k) =>
                 /\ Len(cs) = m
                 /\ \A i \in 1..m : Len(cs[i].body) = AlignedSize(n, k, m, i))

\* a full-read write of 3 bytes cut by 2: two chunks, the last one short
C6_Witness ==
    \E b \in blobs : /\ Len(wlog[b].data) = 3
                     /\ wlog[b].chunk_size = 2
                     /\ wlog[b].lens = FullReads(3, 2)
                     /\ Len(Fp(b)) = 2

\* C7: round trip. For every written blob the chunk bodies concatenated in
\* ascending index order are the stream's bytes, and a read() with no size
\* as the first call on a fresh reader returns exactly those bytes.
C7_RoundTrip ==
    /\ \A b \in blobs : ConcatBodies(Fp(b)) = wlog[b].data
    /\ (rlog.active /\ rlog.fresh /\ rlog.size = -1)
          => rlog.retval = wlog[reader.blob].data

C7_Witness ==
    /\ rlog.active /\ rlog.fresh /\ rlog.size = -1
    /\ Cardinality(blobs) = 2
    /\ \A b \in blobs : ChunksOf(b) # {}
    /\ Len(Fp(reader.blob)) = 2
    /\ Len(rlog.retval) = 2

\* C8: when reads with positive sizes only have been repeated until one
\* returned nothing, the pieces returned concatenate to what one read() on a
\* fresh reader returns; and a read made after the reader has returned every
\* byte returns the empty result, whatever its size.
C8_RepeatedReads ==
    /\ (rlog.active /\ rlog.onlyPos /\ rlog.retval = <<>>)
          => rlog.returned = FreshReadAll(reader.blob)
    /\ (rlog.active /\ rlog.onlyPos) => IsPrefix(rlog.returned, FreshReadAll(reader.blob))
    /\ (rlog.active /\ Len(rlog.before) = Len(FreshReadAll(reader.blob)))
          => rlog.retval = <<>>

C8_Witness ==
    /\ rlog.active /\ rlog.onlyPos /\ rlog.retval = <<>>
    /\ Len(rlog.returned) = 3
    /\ Len(Fp(reader.blob)) >= 2

\* C9 as stated: a read with no size or any negative size returns every
\* byte this reader has not returned yet and leaves the buffer empty and the
\* chunk sequence exhausted.
C9_AsStated ==
    (rlog.active /\ rlog.size < 0) =>
        /\ rlog.retval = Drop(wlog[reader.blob].data, Len(rlog.before))
        /\ reader.buffer = <<>>
        /\ reader.pos = Len(Fp(reader.blob))

\* C10: a read(size) with size >= 0 returns exactly min(size, R) bytes, the
\* next bytes of the blob, R being the bytes not yet returned; in every
\* state the bytes returned so far followed by the buffer are the
\* concatenation of the chunks consumed so far.
C10_SizedRead ==
    /\ (rlog.active /\ rlog.size >= 0) =>
          LET data == wlog[reader.blob].data
              off == Len(rlog.before)
              R == Len(data) - off
          IN /\ Len(rlog.retval) = Min(rlog.size, R)
             /\ rlog.retval = SubSeq(data, off + 1, off + Min(rlog.size, R))
    /\ reader # NoReader =>
          (IF rlog.active THEN rlog.returned ELSE <<>>) \o reader.buffer
             = ConcatBodies(SubSeq(Fp(reader.blob), 1, reader.pos))

\* a sized read that leaves excess in the buffer, followed by a sized read
\* served from the buffer and the next chunk
C10_Witness ==
    /\ rlog.active /\ rlog.size = 2 /\ Len(rlog.before) = 1
    /\ Len(rlog.retval) = 2
    /\ reader.pos = 2
    /\ wlog[reader.blob].lens = <<2, 1>>
====
